---- MODULE Spec2Model ----
(***************************************************************************)
(* A model of module/zfs/zpl_file.c: the Linux entry points of a file of   *)
(* zfs.  Three specifications share the module:                            *)
(*   Spec      the mmap support: zpl_mmap, zpl_readpage, zpl_readpages,    *)
(*             zpl_putpage, zpl_writepage, zpl_writepages, and zpl_read    *)
(*             and zpl_write beside them, called by several threads;       *)
(*   SpecIO    zpl_read and zpl_write on one open file and its offset;     *)
(*   SpecFlags zpl_ioctl and the flag words it translates.                 *)
(* A word of flags is modelled as the set of the positions of its 1 bits:  *)
(* a | b is a \cup b, a & b is a \cap b, a & ~b is a \ b.                  *)
(***************************************************************************)
EXTENDS Integers, Sequences, FiniteSets, TLC

(* ------------------------------ bounds ------------------------------- *)

\* Threads that call the entry points concurrently.
NThreads == 2
\* Pages of the file's address space.
NPages == 2
\* The longest buffer a read or a write is given.
MaxLen == 2
\* Bytes take the values 0..MaxVal.
MaxVal == 1
\* The largest file size and offset of SpecIO.
MaxOff == 4

Threads == 1..NThreads
Pages == 0..(NPages - 1)
Vals == 0..MaxVal
\* One byte of the model per page: a page of the model is PAGE_SIZE bytes
\* that are read, written and flushed together.
Offsets == Pages
PageOf(off) == off

(* ------------------------- errors of the code ------------------------ *)

EACCES == 13
EOPNOTSUPP == 95
ENOTTY == 25
ENOMEM == 12
\* What an engine call (zfs_read, zfs_write, zfs_getpage, ...) may return
\* beside 0: a positive errno (EIO, ENOSPC).
EngineErrnos == {5, 28}
EngineRcs == {0} \cup EngineErrnos
\* What generic_file_mmap may return beside 0, negated (ENOEXEC).
HostErrnos == {8}

(* ------------------------- the page primitives ----------------------- *)

\* A page of the page cache: present (in the cache), lock (0, or the thread
\* that holds the page's lock), PG_uptodate, PG_error, PG_dirty and the data.
NoPage == [present |-> FALSE, lock |-> 0, uptodate |-> FALSE, error |-> FALSE,
           dirty |-> FALSE, data |-> 0]

SetPageError(pg) == [pg EXCEPT !.error = TRUE]
ClearPageError(pg) == [pg EXCEPT !.error = FALSE]
SetPageUptodate(pg) == [pg EXCEPT !.uptodate = TRUE]
ClearPageUptodate(pg) == [pg EXCEPT !.uptodate = FALSE]
unlock_page(pg) == [pg EXCEPT !.lock = 0]

VARIABLES
  z_is_mapped,  \* zp->z_is_mapped
  z_lock,       \* zp->z_lock: 0, or the thread that holds the mutex
  vma,          \* the host has a mapping of the file in place
  arc,          \* the engine's copy of the file's bytes
  pages,        \* the page cache of the file
  ubytes,       \* the byte values that user buffers and stores hold
  pc,           \* each thread's position
  fr,           \* each thread's call: its arguments, locals and result
  f_pos,        \* SpecIO: filp->f_pos
  z_size,       \* SpecIO: the file's size in the engine
  io,           \* SpecIO: the calls made so far on the handle
  z_pflags,     \* SpecFlags: the file's zfs flags
  ctl           \* SpecFlags: the last zpl_ioctl call

syncvars == <<z_is_mapped, z_lock, vma, arc, pages, ubytes, pc, fr>>
iovars == <<f_pos, z_size, io>>
flagvars == <<z_pflags, ctl>>
vars == <<z_is_mapped, z_lock, vma, arc, pages, ubytes, pc, fr, f_pos, z_size, io,
          z_pflags, ctl>>

NoCall == [op |-> "none"]

\* The state of the file after zfs_open: not mapped, nothing in the page
\* cache.  The threads in run call the entry points; the file and the user's
\* buffers hold the byte values in bytes.
InitSync(run, bytes) ==
  /\ z_is_mapped = 0
  /\ z_lock = 0
  /\ vma = FALSE
  /\ ubytes = bytes
  /\ arc \in [Offsets -> bytes]
  /\ pages = [p \in Pages |-> NoPage]
  /\ pc = [t \in Threads |-> IF t \in run THEN "idle" ELSE "off"]
  /\ fr = [t \in Threads |-> NoCall]

IdleSync ==
  /\ z_is_mapped = 0
  /\ z_lock = 0
  /\ vma = FALSE
  /\ ubytes = {}
  /\ arc = [off \in Offsets |-> 0]
  /\ pages = [p \in Pages |-> NoPage]
  /\ pc = [t \in Threads |-> "off"]
  /\ fr = [t \in Threads |-> NoCall]

IdleIO ==
  /\ f_pos = 0
  /\ z_size = 0
  /\ io = NoCall

IdleFlags ==
  /\ z_pflags = {}
  /\ ctl = NoCall

(* --------------------------- the engine ------------------------------ *)

\* zfs_getpage on the pages ps: on success each page holds the engine's bytes.
zfs_getpage(pgs, a, ps, rc) ==
  [p \in Pages |-> IF rc = 0 /\ p \in ps THEN [pgs[p] EXCEPT !.data = a[p]]
                   ELSE pgs[p]]

\* zfs_putpage on page p: on success the engine holds the page's bytes.
zfs_putpage(a, pgs, p, rc) ==
  IF rc = 0 THEN [a EXCEPT ![p] = pgs[p].data] ELSE a

\* What zfs_write may do with a buffer of len bytes: fail having written
\* nothing, or write the first n bytes, n >= 1 (all of them, or fewer when it
\* runs out of space part way); [rc, n].
zfs_write_outcomes(len) ==
  {[rc |-> e, n |-> 0] : e \in EngineErrnos}
    \cup {[rc |-> 0, n |-> n] : n \in (IF len = 0 THEN {0} ELSE 1..len)}

\* The bytes zfs_write touches.
WriteRange(pos, n) == {off \in Offsets : pos <= off /\ off < pos + n}

zfs_write_arc(a, pos, n, val) ==
  [off \in Offsets |-> IF off \in WriteRange(pos, n) THEN val ELSE a[off]]

\* zfs_write of a mapped file also updates the pages that are in the page
\* cache (update_pages); it adds none.
zfs_write_pages(pgs, mapped, pos, n, val) ==
  [p \in Pages |->
     IF mapped = 1 /\ pgs[p].present /\ p \in WriteRange(pos, n)
     THEN [pgs[p] EXCEPT !.data = val] ELSE pgs[p]]

\* zfs_read of a mapped file takes a byte from its page when the page is in
\* the page cache, and from the engine's copy otherwise.
zfs_read_byte(a, pgs, mapped, off) ==
  IF mapped = 1 /\ pgs[off].present /\ pgs[off].uptodate THEN pgs[off].data
  ELSE a[off]

(* ------------------- zpl_read_common, zpl_write_common --------------- *)

\* zpl_read_common without its if (error < 0) return (error).
zpl_read_common_unchecked(len, rc, resid) ==
  len - resid

\* The result of zpl_read_common for a buffer of len bytes when zfs_read
\* returns rc and leaves uio_resid = resid.
zpl_read_common(len, rc, resid) ==
  LET error == 0 - rc IN
  IF error < 0 THEN error ELSE len - resid

\* zpl_write_common returning len, not len - uio.uio_resid.
zpl_write_common_len(len, rc, resid) ==
  LET error == 0 - rc IN
  IF error < 0 THEN error ELSE len

zpl_write_common(len, rc, resid) ==
  LET error == 0 - rc IN
  IF error < 0 THEN error ELSE len - resid

\* *ppos after zpl_read, whose zpl_read_common returned read.
zpl_read(ppos, read) ==
  IF read < 0 THEN ppos ELSE ppos + read

\* zpl_write without its if (wrote < 0) return (wrote).
zpl_write_unchecked(ppos, wrote) ==
  ppos + wrote

\* *ppos after zpl_write, whose zpl_write_common returned wrote.
zpl_write(ppos, wrote) ==
  IF wrote < 0 THEN ppos ELSE ppos + wrote

(* ------------------------------ zpl_mmap ----------------------------- *)

\* The record of a zpl_mmap call: error, and steps, the calls and the
\* assignment it has made so far, in their order.
MmapCall(error, steps) == [op |-> "mmap", error |-> error, steps |-> steps]

\* zpl_mmap going on to generic_file_mmap whatever zfs_map returned.
zpl_mmap_zfs_map_unchecked(t) ==
  /\ pc[t] = "idle"
  /\ \E rc \in EngineRcs :
       LET error == 0 - rc IN
       /\ pc' = [pc EXCEPT ![t] = "mmap_generic"]
       /\ fr' = [fr EXCEPT ![t] = MmapCall(error, <<"zfs_map">>)]
  /\ UNCHANGED <<z_is_mapped, z_lock, vma, arc, pages>>
  /\ UNCHANGED <<ubytes, iovars, flagvars>>

\* error = -zfs_map(...); if (error) return (error);
zpl_mmap_zfs_map(t) ==
  /\ pc[t] = "idle"
  /\ \E rc \in EngineRcs :
       LET error == 0 - rc IN
       IF error # 0
       THEN /\ pc' = [pc EXCEPT ![t] = "done"]
            /\ fr' = [fr EXCEPT ![t] = MmapCall(error, <<"zfs_map">>)
                                         @@ [ret |-> error]]
       ELSE /\ pc' = [pc EXCEPT ![t] = "mmap_generic"]
            /\ fr' = [fr EXCEPT ![t] = MmapCall(error, <<"zfs_map">>)]
  /\ UNCHANGED <<z_is_mapped, z_lock, vma, arc, pages>>
  /\ UNCHANGED <<ubytes, iovars, flagvars>>

\* zpl_mmap going on to set z_is_mapped whatever generic_file_mmap returned.
zpl_mmap_generic_file_mmap_unchecked(t) ==
  /\ pc[t] = "mmap_generic"
  /\ \E error \in {0} \cup {0 - e : e \in HostErrnos} :
       /\ pc' = [pc EXCEPT ![t] = "mmap_enter"]
       /\ fr' = [fr EXCEPT ![t] =
                   MmapCall(error, Append(fr[t].steps, "generic_file_mmap"))]
  /\ UNCHANGED <<z_is_mapped, z_lock, vma, arc, pages>>
  /\ UNCHANGED <<ubytes, iovars, flagvars>>

\* error = generic_file_mmap(filp, vma); if (error) return (error);
zpl_mmap_generic_file_mmap(t) ==
  /\ pc[t] = "mmap_generic"
  /\ \E error \in {0} \cup {0 - e : e \in HostErrnos} :
       LET call == MmapCall(error, Append(fr[t].steps, "generic_file_mmap"))
       IN IF error # 0
          THEN /\ pc' = [pc EXCEPT ![t] = "done"]
               /\ fr' = [fr EXCEPT ![t] = call @@ [ret |-> error]]
          ELSE /\ pc' = [pc EXCEPT ![t] = "mmap_enter"]
               /\ fr' = [fr EXCEPT ![t] = call]
  /\ UNCHANGED <<z_is_mapped, z_lock, vma, arc, pages>>
  /\ UNCHANGED <<ubytes, iovars, flagvars>>

\* zpl_mmap without its mutex_enter(&zp->z_lock).
zpl_mmap_mutex_enter_skipped(t) ==
  /\ pc[t] = "mmap_enter"
  /\ pc' = [pc EXCEPT ![t] = "mmap_set"]
  /\ fr' = [fr EXCEPT ![t] =
              MmapCall(fr[t].error, Append(fr[t].steps, "mutex_enter"))]
  /\ UNCHANGED <<z_is_mapped, z_lock, vma, arc, pages>>
  /\ UNCHANGED <<ubytes, iovars, flagvars>>

\* mutex_enter(&zp->z_lock): waits for the mutex.
zpl_mmap_mutex_enter(t) ==
  /\ pc[t] = "mmap_enter"
  /\ z_lock = 0
  /\ z_lock' = t
  /\ pc' = [pc EXCEPT ![t] = "mmap_set"]
  /\ fr' = [fr EXCEPT ![t] =
              MmapCall(fr[t].error, Append(fr[t].steps, "mutex_enter"))]
  /\ UNCHANGED <<z_is_mapped, vma, arc, pages>>
  /\ UNCHANGED <<ubytes, iovars, flagvars>>

\* zp->z_is_mapped = 1;
zpl_mmap_set(t) ==
  /\ pc[t] = "mmap_set"
  /\ z_is_mapped' = 1
  /\ pc' = [pc EXCEPT ![t] = "mmap_exit"]
  /\ fr' = [fr EXCEPT ![t] =
              MmapCall(fr[t].error, Append(fr[t].steps, "z_is_mapped = 1"))]
  /\ UNCHANGED <<z_lock, vma, arc, pages>>
  /\ UNCHANGED <<ubytes, iovars, flagvars>>

\* mutex_exit(&zp->z_lock); return (error);
zpl_mmap_mutex_exit(t) ==
  /\ pc[t] = "mmap_exit"
  /\ z_lock' = 0
  /\ pc' = [pc EXCEPT ![t] = "done"]
  /\ fr' = [fr EXCEPT ![t] =
              MmapCall(fr[t].error, Append(fr[t].steps, "mutex_exit"))
                @@ [ret |-> fr[t].error]]
  /\ UNCHANGED <<z_is_mapped, vma, arc, pages>>
  /\ UNCHANGED <<ubytes, iovars, flagvars>>

(* ---------------------------- zpl_readpage --------------------------- *)

\* The flags of the page after the if (error) ... else ... of zpl_readpage.
zpl_readpage_flags(pg, error) ==
  IF error # 0 THEN ClearPageUptodate(SetPageError(pg))
  ELSE SetPageUptodate(ClearPageError(pg))

\* The host finds page p missing (or not uptodate) at a fault in the mapping:
\* it puts the page in the page cache, locks it and calls zpl_readpage, which
\* calls zfs_getpage(ip, pl, 1).
zpl_readpage_getpage(t, p) ==
  /\ pc[t] = "idle"
  /\ vma
  /\ \/ ~pages[p].present
     \/ pages[p].present /\ pages[p].lock = 0 /\ ~pages[p].uptodate
  /\ \E rc \in EngineRcs :
       LET locked == [pages EXCEPT ![p].present = TRUE, ![p].lock = t] IN
       /\ pages' = zfs_getpage(locked, arc, {p}, rc)
       /\ fr' = [fr EXCEPT ![t] = [op |-> "readpage", pp |-> p,
                                  was |-> pages[p],
                                  error |-> 0 - rc, nunlock |-> 0]]
  /\ pc' = [pc EXCEPT ![t] = "readpage_mark"]
  /\ UNCHANGED <<z_is_mapped, z_lock, vma, arc>>
  /\ UNCHANGED <<ubytes, iovars, flagvars>>

zpl_readpage_mark(t) ==
  /\ pc[t] = "readpage_mark"
  /\ pages' = [pages EXCEPT ![fr[t].pp] = zpl_readpage_flags(@, fr[t].error)]
  /\ pc' = [pc EXCEPT ![t] = "readpage_unlock"]
  /\ UNCHANGED <<z_is_mapped, z_lock, vma, arc, fr>>
  /\ UNCHANGED <<ubytes, iovars, flagvars>>

\* zpl_readpage with the unlock_page(pp) in the else branch only: a failed
\* call returns with the page locked.
zpl_readpage_unlock_on_success(t) ==
  /\ pc[t] = "readpage_unlock"
  /\ LET n == IF fr[t].error # 0 THEN 0 ELSE 1
         after == IF n = 1 THEN unlock_page(pages[fr[t].pp])
                  ELSE pages[fr[t].pp]
     IN /\ pages' = [pages EXCEPT ![fr[t].pp] = after]
        /\ fr' = [fr EXCEPT ![t] = [op |-> "readpage", pp |-> fr[t].pp,
                                   was |-> fr[t].was,
                                   error |-> fr[t].error,
                                   nunlock |-> fr[t].nunlock + n,
                                   page |-> after, ret |-> fr[t].error]]
  /\ pc' = [pc EXCEPT ![t] = "done"]
  /\ UNCHANGED <<z_is_mapped, z_lock, vma, arc>>
  /\ UNCHANGED <<ubytes, iovars, flagvars>>

\* unlock_page(pp); return error;  The call's record keeps the page as it is
\* when the call returns.
zpl_readpage_unlock(t) ==
  /\ pc[t] = "readpage_unlock"
  /\ LET after == unlock_page(pages[fr[t].pp])
     IN /\ pages' = [pages EXCEPT ![fr[t].pp] = after]
        /\ fr' = [fr EXCEPT ![t] = [op |-> "readpage", pp |-> fr[t].pp,
                                   was |-> fr[t].was,
                                   error |-> fr[t].error,
                                   nunlock |-> fr[t].nunlock + 1,
                                   page |-> after, ret |-> fr[t].error]]
  /\ pc' = [pc EXCEPT ![t] = "done"]
  /\ UNCHANGED <<z_is_mapped, z_lock, vma, arc>>
  /\ UNCHANGED <<ubytes, iovars, flagvars>>

(* ------------------ zpl_putpage, zpl_writepage(s) -------------------- *)

\* zpl_putpage without the ClearPageUptodate(pp) of a failed call.
zpl_putpage_flags_keep_uptodate(pg, error) ==
  IF error # 0 THEN SetPageError(pg)
  ELSE SetPageUptodate(ClearPageError(pg))

\* The flags of the page after the if (error) ... else ... of zpl_putpage.
zpl_putpage_flags(pg, error) ==
  IF error # 0 THEN ClearPageUptodate(SetPageError(pg))
  ELSE SetPageUptodate(ClearPageError(pg))

\* The host's writeback of one dirty page p: it locks the page, clears its
\* dirty flag and calls zpl_writepage, that is zpl_putpage(pp, wbc,
\* pp->mapping), which calls zfs_putpage.
zpl_writepage(t, p) ==
  /\ pc[t] = "idle"
  /\ pages[p].present /\ pages[p].dirty /\ pages[p].lock = 0
  /\ \E rc \in EngineRcs :
       /\ arc' = zfs_putpage(arc, pages, p, rc)
       /\ fr' = [fr EXCEPT ![t] = [op |-> "writepage", pp |-> p,
                                  was |-> pages[p],
                                  error |-> 0 - rc, nunlock |-> 0]]
  /\ pages' = [pages EXCEPT ![p].lock = t, ![p].dirty = FALSE]
  /\ pc' = [pc EXCEPT ![t] = "putpage_mark"]
  /\ UNCHANGED <<z_is_mapped, z_lock, vma>>
  /\ UNCHANGED <<ubytes, iovars, flagvars>>

\* zpl_writepages: write_cache_pages(mapping, wbc, zpl_putpage, mapping).
zpl_writepages(t) ==
  /\ pc[t] = "idle"
  /\ pc' = [pc EXCEPT ![t] = "writepages_next"]
  /\ fr' = [fr EXCEPT ![t] = [op |-> "writepages", index |-> 0, put |-> NoCall]]
  /\ UNCHANGED <<z_is_mapped, z_lock, vma, arc, pages>>
  /\ UNCHANGED <<ubytes, iovars, flagvars>>

\* write_cache_pages looks for the next dirty page from its index on: with
\* none it returns 0; else it waits for the page's lock, clears the dirty
\* flag and calls zpl_putpage, which calls zfs_putpage.
write_cache_pages_next(t) ==
  /\ pc[t] = "writepages_next"
  /\ LET cand == {p \in Pages : p >= fr[t].index /\ pages[p].present
                                  /\ pages[p].dirty}
     IN IF cand = {}
        THEN /\ pc' = [pc EXCEPT ![t] = "done"]
             /\ fr' = [fr EXCEPT ![t] = [op |-> "writepages",
                                        put |-> fr[t].put, ret |-> 0]]
             /\ UNCHANGED <<arc, pages>>
        ELSE LET p == CHOOSE q \in cand : \A r \in cand : q <= r IN
             /\ pages[p].lock = 0
             /\ \E rc \in EngineRcs :
                  /\ arc' = zfs_putpage(arc, pages, p, rc)
                  /\ fr' = [fr EXCEPT ![t] = [op |-> "writepages", pp |-> p,
                                             index |-> p + 1,
                                             put |-> fr[t].put,
                                             was |-> pages[p],
                                             error |-> 0 - rc, nunlock |-> 0]]
             /\ pages' = [pages EXCEPT ![p].lock = t, ![p].dirty = FALSE]
             /\ pc' = [pc EXCEPT ![t] = "putpage_mark"]
  /\ UNCHANGED <<z_is_mapped, z_lock, vma>>
  /\ UNCHANGED <<ubytes, iovars, flagvars>>

zpl_putpage_mark(t) ==
  /\ pc[t] = "putpage_mark"
  /\ pages' = [pages EXCEPT ![fr[t].pp] = zpl_putpage_flags(@, fr[t].error)]
  /\ pc' = [pc EXCEPT ![t] = "putpage_unlock"]
  /\ UNCHANGED <<z_is_mapped, z_lock, vma, arc, fr>>
  /\ UNCHANGED <<ubytes, iovars, flagvars>>

\* unlock_page(pp); return error;  zpl_writepage returns it to the host;
\* write_cache_pages stops at an error and goes on to the next page otherwise.
zpl_putpage_unlock(t) ==
  /\ pc[t] = "putpage_unlock"
  /\ LET after == unlock_page(pages[fr[t].pp])
         call == [op |-> "putpage", pp |-> fr[t].pp, was |-> fr[t].was,
                  error |-> fr[t].error,
                  nunlock |-> fr[t].nunlock + 1, page |-> after,
                  ret |-> fr[t].error]
     IN /\ pages' = [pages EXCEPT ![fr[t].pp] = after]
        /\ IF fr[t].op = "writepage"
           THEN /\ fr' = [fr EXCEPT ![t] = [op |-> "writepage", put |-> call,
                                            ret |-> call.ret]]
                /\ pc' = [pc EXCEPT ![t] = "done"]
           ELSE IF call.ret # 0
           THEN /\ fr' = [fr EXCEPT ![t] = [op |-> "writepages", put |-> call,
                                            ret |-> call.ret]]
                /\ pc' = [pc EXCEPT ![t] = "done"]
           ELSE /\ fr' = [fr EXCEPT ![t] = [op |-> "writepages",
                                            index |-> fr[t].index,
                                            put |-> call]]
                /\ pc' = [pc EXCEPT ![t] = "writepages_next"]
  /\ UNCHANGED <<z_is_mapped, z_lock, vma, arc>>
  /\ UNCHANGED <<ubytes, iovars, flagvars>>

(* ---------------------------- zpl_readpages -------------------------- *)

\* The list the host hands to zpl_readpages for the pages ps: the page with
\* the highest index first (the host adds each page at the head).
RECURSIVE HostList(_)
HostList(ps) ==
  IF ps = {} THEN <<>>
  ELSE LET top == CHOOSE p \in ps : \A q \in ps : q <= p
       IN <<top>> \o HostList(ps \ {top})

\* pages_vector_from_list walking the list from its head to its tail.
pages_vector_from_list_forward(list, nr_pages) ==
  [i \in 1..Len(list) |-> list[i]]

\* pages_vector_from_list: pl[page_idx] for page_idx = 0, 1, ... takes the
\* entries of the list from its tail to its head.
pages_vector_from_list(list, nr_pages) ==
  [i \in 1..Len(list) |-> list[Len(list) + 1 - i]]

Range(f) == {f[i] : i \in DOMAIN f}

\* The host reads the pages ps in one batch, none of them uptodate in the
\* page cache: it puts those that are missing in the page cache, locks them
\* all and calls zpl_readpages with their list and their number.  kmalloc may
\* fail in pages_vector_from_list, and zpl_readpages then returns -ENOMEM.
\* The call's record: given, the list on entry; was, the pages on entry;
\* pages, the list now; getpage, the calls of zfs_getpage made; unlocked,
\* the pages unlocked, in their order; after, each of them as it was
\* unlocked.
zpl_readpages_vector(t, ps) ==
  /\ pc[t] = "idle"
  /\ vma
  /\ ps # {}
  /\ \A p \in ps :
       \/ ~pages[p].present
       \/ (pages[p].present /\ pages[p].lock = 0 /\ ~pages[p].uptodate)
  /\ LET locked == [p \in Pages |->
                      IF p \in ps
                      THEN [pages[p] EXCEPT !.present = TRUE, !.lock = t]
                      ELSE pages[p]]
         list == HostList(ps)
         nr_pages == Len(list)
         call == [op |-> "readpages", given |-> list, pages |-> list,
                  nr_pages |-> nr_pages, was |-> [p \in ps |-> locked[p]],
                  getpage |-> <<>>, unlocked |-> <<>>, after |-> <<>>]
     IN /\ pages' = locked
        /\ \E kmalloc_ok \in BOOLEAN :
             IF ~kmalloc_ok
             THEN /\ pc' = [pc EXCEPT ![t] = "done"]
                  /\ fr' = [fr EXCEPT ![t] = [ret |-> 0 - ENOMEM] @@ call]
             ELSE /\ pc' = [pc EXCEPT ![t] = "readpages_getpage"]
                  /\ fr' = [fr EXCEPT ![t] =
                              [pl |-> pages_vector_from_list(list, nr_pages)]
                                @@ call]
  /\ UNCHANGED <<z_is_mapped, z_lock, vma, arc>>
  /\ UNCHANGED <<ubytes, iovars, flagvars>>

\* zpl_readpages unlocking the pages of the list before its goto error.
zpl_readpages_getpage_unlock_on_error(t) ==
  /\ pc[t] = "readpages_getpage"
  /\ \E rc \in EngineRcs :
       LET error == 0 - rc
           call == [error |-> error,
                    getpage |-> Append(fr[t].getpage,
                                       [pl |-> fr[t].pl,
                                        nr_pages |-> fr[t].nr_pages])]
                     @@ fr[t]
           got == zfs_getpage(pages, arc, Range(fr[t].pl), rc)
       IN IF error # 0
          THEN /\ pages' = [p \in Pages |->
                              IF p \in Range(fr[t].pl) THEN unlock_page(got[p])
                              ELSE got[p]]
               /\ pc' = [pc EXCEPT ![t] = "done"]
               /\ fr' = [fr EXCEPT ![t] = [ret |-> error] @@ call]
          ELSE /\ pages' = got
               /\ pc' = [pc EXCEPT ![t] = "readpages_mark"]
               /\ fr' = [fr EXCEPT ![t] = call]
  /\ UNCHANGED <<z_is_mapped, z_lock, vma, arc>>
  /\ UNCHANGED <<ubytes, iovars, flagvars>>

\* error = -zfs_getpage(ip, pl, nr_pages); if (error) goto error;  and at
\* error: kfree(pl); return error;
zpl_readpages_getpage(t) ==
  /\ pc[t] = "readpages_getpage"
  /\ \E rc \in EngineRcs :
       LET error == 0 - rc
           call == [error |-> error,
                    getpage |-> Append(fr[t].getpage,
                                       [pl |-> fr[t].pl,
                                        nr_pages |-> fr[t].nr_pages])]
                     @@ fr[t]
       IN /\ pages' = zfs_getpage(pages, arc, Range(fr[t].pl), rc)
          /\ IF error # 0
             THEN /\ pc' = [pc EXCEPT ![t] = "done"]
                  /\ fr' = [fr EXCEPT ![t] = [ret |-> error] @@ call]
             ELSE /\ pc' = [pc EXCEPT ![t] = "readpages_mark"]
                  /\ fr' = [fr EXCEPT ![t] = call]
  /\ UNCHANGED <<z_is_mapped, z_lock, vma, arc>>
  /\ UNCHANGED <<ubytes, iovars, flagvars>>

\* The turn of the loop of zpl_readpages with unlock_page(p) before
\* SetPageUptodate(p).
zpl_readpages_mark_unlock_first(t) ==
  /\ pc[t] = "readpages_mark"
  /\ LET list == fr[t].pages
         p == list[Len(list)]
     IN /\ pages' = [pages EXCEPT ![p] = SetPageUptodate(unlock_page(@))]
        /\ fr' = [fr EXCEPT ![t] =
                    [pages |-> SubSeq(list, 1, Len(list) - 1), p |-> p]
                      @@ fr[t]]
  /\ pc' = [pc EXCEPT ![t] = "readpages_unlock"]
  /\ UNCHANGED <<z_is_mapped, z_lock, vma, arc>>
  /\ UNCHANGED <<ubytes, iovars, flagvars>>

\* One turn of list_for_each_entry_safe_reverse, up to the unlock: p is the
\* tail of the list; list_del(&p->lru); flush_dcache_page(p);
\* SetPageUptodate(p).
zpl_readpages_mark(t) ==
  /\ pc[t] = "readpages_mark"
  /\ LET list == fr[t].pages
         p == list[Len(list)]
     IN /\ pages' = [pages EXCEPT ![p] = SetPageUptodate(@)]
        /\ fr' = [fr EXCEPT ![t] =
                    [pages |-> SubSeq(list, 1, Len(list) - 1), p |-> p]
                      @@ fr[t]]
  /\ pc' = [pc EXCEPT ![t] = "readpages_unlock"]
  /\ UNCHANGED <<z_is_mapped, z_lock, vma, arc>>
  /\ UNCHANGED <<ubytes, iovars, flagvars>>

\* unlock_page(p); page_cache_release(p); then the next turn, or after the
\* last one kfree(pl); return error.
zpl_readpages_unlock(t) ==
  /\ pc[t] = "readpages_unlock"
  /\ pages' = [pages EXCEPT ![fr[t].p] = unlock_page(@)]
  /\ LET call == [unlocked |-> Append(fr[t].unlocked, fr[t].p),
                  after |-> Append(fr[t].after, unlock_page(pages[fr[t].p]))]
                   @@ fr[t]
     IN IF fr[t].pages = <<>>
        THEN /\ pc' = [pc EXCEPT ![t] = "done"]
             /\ fr' = [fr EXCEPT ![t] = [ret |-> fr[t].error] @@ call]
        ELSE /\ pc' = [pc EXCEPT ![t] = "readpages_mark"]
             /\ fr' = [fr EXCEPT ![t] = call]
  /\ UNCHANGED <<z_is_mapped, z_lock, vma, arc>>
  /\ UNCHANGED <<ubytes, iovars, flagvars>>

(* ---------------------- zpl_read, zpl_write, stores ------------------ *)

\* zpl_write as a write through the page cache, which adds the pages it
\* writes to.
zpl_write_call_page_cache(t, pos, len, val) ==
  /\ pc[t] = "idle"
  /\ pos + len <= NPages
  /\ \E o \in zfs_write_outcomes(len) :
       LET wrote == zpl_write_common(len, o.rc, len - o.n) IN
       /\ \A p \in WriteRange(pos, o.n) : pages[p].present => pages[p].lock = 0
       /\ arc' = zfs_write_arc(arc, pos, o.n, val)
       /\ pages' = [p \in Pages |->
                      IF p \in WriteRange(pos, o.n)
                      THEN [pages[p] EXCEPT !.present = TRUE, !.data = val,
                                            !.uptodate = TRUE]
                      ELSE pages[p]]
       /\ fr' = [fr EXCEPT ![t] = [op |-> "write", pos |-> pos, len |-> len,
                                  val |-> val, rc |-> o.rc, ret |-> wrote,
                                  ppos |-> zpl_write(pos, wrote)]]
  /\ pc' = [pc EXCEPT ![t] = "done"]
  /\ UNCHANGED <<z_is_mapped, z_lock, vma>>
  /\ UNCHANGED <<ubytes, iovars, flagvars>>

\* pwrite(2) of len bytes of value val at offset pos: zpl_write with a *ppos
\* of the host's own.  zfs_write takes the lock of each page it updates, so
\* the call waits while another thread holds one of them.
zpl_write_call(t, pos, len, val) ==
  /\ pc[t] = "idle"
  /\ pos + len <= NPages
  /\ \E o \in zfs_write_outcomes(len) :
       LET wrote == zpl_write_common(len, o.rc, len - o.n) IN
       /\ z_is_mapped = 1 =>
            \A p \in WriteRange(pos, o.n) : pages[p].present => pages[p].lock = 0
       /\ arc' = zfs_write_arc(arc, pos, o.n, val)
       /\ pages' = zfs_write_pages(pages, z_is_mapped, pos, o.n, val)
       /\ fr' = [fr EXCEPT ![t] = [op |-> "write", pos |-> pos, len |-> len,
                                  val |-> val, rc |-> o.rc, ret |-> wrote,
                                  ppos |-> zpl_write(pos, wrote)]]
  /\ pc' = [pc EXCEPT ![t] = "done"]
  /\ UNCHANGED <<z_is_mapped, z_lock, vma>>
  /\ UNCHANGED <<ubytes, iovars, flagvars>>

\* pread(2) of len bytes at offset pos: zpl_read with a *ppos of the host's
\* own.  zfs_read fails, or reads the bytes up to the end of the file.
zpl_read_call(t, pos, len) ==
  /\ pc[t] = "idle"
  /\ pos + len <= NPages
  /\ \E rc \in EngineRcs :
       LET n == IF rc = 0 THEN len ELSE 0
           read == zpl_read_common(len, rc, len - n)
       IN /\ z_is_mapped = 1 =>
               \A p \in WriteRange(pos, n) : pages[p].present => pages[p].lock = 0
          /\ fr' = [fr EXCEPT ![t] =
                      [op |-> "read", pos |-> pos, len |-> len, rc |-> rc,
                       buf |-> [i \in 1..n |->
                                  zfs_read_byte(arc, pages, z_is_mapped,
                                                pos + i - 1)],
                       ret |-> read, ppos |-> zpl_read(pos, read)]]
  /\ pc' = [pc EXCEPT ![t] = "done"]
  /\ UNCHANGED <<z_is_mapped, z_lock, vma, arc, pages>>
  /\ UNCHANGED <<ubytes, iovars, flagvars>>

\* A store of val through the mapping into page p, which is in the page
\* cache and uptodate: the page is dirty, and the engine is not told.
MappedStore(p, val) ==
  /\ vma
  /\ pages[p].present /\ pages[p].uptodate
  /\ pages' = [pages EXCEPT ![p].data = val, ![p].dirty = TRUE]
  /\ UNCHANGED <<z_is_mapped, z_lock, vma, arc, pc, fr>>
  /\ UNCHANGED <<ubytes, iovars, flagvars>>

\* The call of thread t returns to the host.  After a zpl_mmap that returned
\* 0 the host has the mapping in place, and faults in it may follow.
Return(t) ==
  /\ pc[t] = "done"
  /\ vma' = (vma \/ (fr[t].op = "mmap" /\ fr[t].ret = 0))
  /\ pc' = [pc EXCEPT ![t] = "idle"]
  /\ fr' = [fr EXCEPT ![t] = NoCall]
  /\ UNCHANGED <<z_is_mapped, z_lock, arc, pages>>
  /\ UNCHANGED <<ubytes, iovars, flagvars>>

Next ==
  \/ \E t \in Threads : zpl_mmap_zfs_map(t)
  \/ \E t \in Threads : zpl_mmap_generic_file_mmap(t)
  \/ \E t \in Threads : zpl_mmap_mutex_enter(t)
  \/ \E t \in Threads : zpl_mmap_set(t)
  \/ \E t \in Threads : zpl_mmap_mutex_exit(t)
  \/ \E t \in Threads, p \in Pages : zpl_readpage_getpage(t, p)
  \/ \E t \in Threads : zpl_readpage_mark(t)
  \/ \E t \in Threads : zpl_readpage_unlock(t)
  \/ \E t \in Threads, ps \in SUBSET Pages : zpl_readpages_vector(t, ps)
  \/ \E t \in Threads : zpl_readpages_getpage(t)
  \/ \E t \in Threads : zpl_readpages_mark(t)
  \/ \E t \in Threads : zpl_readpages_unlock(t)
  \/ \E t \in Threads, p \in Pages : zpl_writepage(t, p)
  \/ \E t \in Threads : zpl_writepages(t)
  \/ \E t \in Threads : write_cache_pages_next(t)
  \/ \E t \in Threads : zpl_putpage_mark(t)
  \/ \E t \in Threads : zpl_putpage_unlock(t)
  \/ \E t \in Threads, pos \in Offsets, len \in 0..MaxLen, val \in ubytes :
       zpl_write_call(t, pos, len, val)
  \/ \E t \in Threads, pos \in Offsets, len \in 0..MaxLen :
       zpl_read_call(t, pos, len)
  \/ \E p \in Pages, val \in ubytes : MappedStore(p, val)
  \/ \E t \in Threads : Return(t)

Init == InitSync(Threads, {0}) /\ IdleIO /\ IdleFlags

InitData == InitSync({1}, Vals) /\ IdleIO /\ IdleFlags

Spec == Init /\ [][Next]_vars

SpecData == InitData /\ [][Next]_vars

(* ------------------ SpecIO: zpl_read and zpl_write ------------------- *)

Min(a, b) == IF a < b THEN a ELSE b
Max(a, b) == IF a < b THEN b ELSE a

\* What zfs_read may do with a buffer of len bytes at offset pos of a file
\* of size bytes: read the bytes there are up to the end of the file, or fail
\* after any part of the buffer; [rc, resid].
zfs_read_outcomes(pos, len, size) ==
  {[rc |-> 0, resid |-> len - Min(len, Max(size - pos, 0))]}
    \cup {[rc |-> e, resid |-> r] : e \in EngineErrnos, r \in 0..len}

\* The file is open, at some offset, and the engine holds z_size bytes of it.
InitIO ==
  /\ f_pos \in 0..MaxLen
  /\ z_size \in 0..MaxOff
  /\ io = [op |-> "none", start |-> f_pos, sum |-> 0]

\* read(2) of len bytes: zpl_read(filp, buf, len, &filp->f_pos).
zpl_read_f_pos(len) ==
  /\ \E o \in zfs_read_outcomes(f_pos, len, z_size) :
       LET read == zpl_read_common(len, o.rc, o.resid) IN
       /\ f_pos' = zpl_read(f_pos, read)
       /\ io' = [op |-> "read", len |-> len, pos |-> f_pos, size |-> z_size,
                 rc |-> o.rc, resid |-> o.resid, ret |-> read,
                 start |-> io.start,
                 sum |-> io.sum + (IF read < 0 THEN 0 ELSE read)]
  /\ UNCHANGED z_size
  /\ UNCHANGED <<syncvars, flagvars>>

\* write(2) of len bytes: zpl_write(filp, buf, len, &filp->f_pos).
zpl_write_f_pos(len) ==
  /\ f_pos + len <= MaxOff
  /\ \E o \in zfs_write_outcomes(len) :
       LET wrote == zpl_write_common(len, o.rc, len - o.n) IN
       /\ f_pos' = zpl_write(f_pos, wrote)
       /\ z_size' = IF o.n > 0 THEN Max(z_size, f_pos + o.n) ELSE z_size
       /\ io' = [op |-> "write", len |-> len, pos |-> f_pos, size |-> z_size,
                 rc |-> o.rc, resid |-> len - o.n, ret |-> wrote,
                 start |-> io.start,
                 sum |-> io.sum + (IF wrote < 0 THEN 0 ELSE wrote)]
  /\ UNCHANGED <<syncvars, flagvars>>

NextIO ==
  \/ \E len \in 0..MaxLen : zpl_read_f_pos(len)
  \/ \E len \in 0..MaxLen : zpl_write_f_pos(len)

InitSpecIO == InitIO /\ IdleSync /\ IdleFlags

SpecIO == InitSpecIO /\ [][NextIO]_vars

(* ----------------------- SpecFlags: zpl_ioctl ------------------------ *)

\* The zfs flags (zp_flags) that zpl_get_ioctl_flags tests, each a word with
\* one bit; the comment before it says that no two of them overlap.
ZFS_IMMUTABLE == {"ZFS_IMMUTABLE"}
ZFS_APPENDONLY == {"ZFS_APPENDONLY"}
ZFS_NODUMP == {"ZFS_NODUMP"}
ZFS_DIRSYNC == {"ZFS_DIRSYNC"}
ZFS_SYNC == {"ZFS_SYNC"}
ZFS_NOATIME == {"ZFS_NOATIME"}
\* The six of them, and with them a flag of zp_flags that Linux has no
\* equivalent of.
ZfsRecognized ==
  ZFS_IMMUTABLE \cup ZFS_APPENDONLY \cup ZFS_NODUMP \cup ZFS_DIRSYNC
    \cup ZFS_SYNC \cup ZFS_NOATIME
ZfsBits == ZfsRecognized \cup {"ZFS_READONLY"}

\* The Linux flags (linux/fs.h), each a word with one bit.
FS_IMMUTABLE_FL == {"FS_IMMUTABLE_FL"}
FS_APPEND_FL == {"FS_APPEND_FL"}
FS_NODUMP_FL == {"FS_NODUMP_FL"}
FS_DIRSYNC_FL == {"FS_DIRSYNC_FL"}
FS_SYNC_FL == {"FS_SYNC_FL"}
FS_NOATIME_FL == {"FS_NOATIME_FL"}
\* The bits of a Linux flag word that the model tells apart: the six, and
\* FS_COMPR_FL (0x4: user visible and user modifiable), FS_DIRTY_FL (0x100:
\* user visible only) and FS_IMAGIC_FL (0x2000: neither).
FsBits ==
  FS_IMMUTABLE_FL \cup FS_APPEND_FL \cup FS_NODUMP_FL \cup FS_DIRSYNC_FL
    \cup FS_SYNC_FL \cup FS_NOATIME_FL
    \cup {"FS_COMPR_FL", "FS_DIRTY_FL", "FS_IMAGIC_FL"}
\* FS_FL_USER_VISIBLE 0x0003DFFF and FS_FL_USER_MODIFIABLE 0x000380FF, cut to
\* FsBits.
FS_FL_USER_VISIBLE == FsBits \ {"FS_IMAGIC_FL"}
FS_FL_USER_MODIFIABLE == FsBits \ {"FS_DIRTY_FL", "FS_IMAGIC_FL"}

\* zpl_get_ioctl_flags with FS_DIRSYNC_FL set for ZFS_SYNC too.
zpl_get_ioctl_flags_sync_as_dirsync(zfs_flags) ==
  LET f1 == IF zfs_flags \cap ZFS_IMMUTABLE # {} THEN FS_IMMUTABLE_FL ELSE {}
      f2 == IF zfs_flags \cap ZFS_APPENDONLY # {} THEN FS_APPEND_FL ELSE {}
      f3 == IF zfs_flags \cap ZFS_NODUMP # {} THEN FS_NODUMP_FL ELSE {}
      f4 == IF zfs_flags \cap ZFS_DIRSYNC # {} THEN FS_DIRSYNC_FL ELSE {}
      f5 == IF zfs_flags \cap ZFS_SYNC # {} THEN FS_DIRSYNC_FL ELSE {}
      f6 == IF zfs_flags \cap ZFS_NOATIME # {} THEN FS_NOATIME_FL ELSE {}
      ioctl_flags == f1 \cup f2 \cup f3 \cup f4 \cup f5 \cup f6
  IN ioctl_flags \cap FS_FL_USER_VISIBLE

\* zpl_get_ioctl_flags with FS_NOATIME_FL set only when ZFS_SYNC is set too.
zpl_get_ioctl_flags_noatime_with_sync(zfs_flags) ==
  LET f1 == IF zfs_flags \cap ZFS_IMMUTABLE # {} THEN FS_IMMUTABLE_FL ELSE {}
      f2 == IF zfs_flags \cap ZFS_APPENDONLY # {} THEN FS_APPEND_FL ELSE {}
      f3 == IF zfs_flags \cap ZFS_NODUMP # {} THEN FS_NODUMP_FL ELSE {}
      f4 == IF zfs_flags \cap ZFS_DIRSYNC # {} THEN FS_DIRSYNC_FL ELSE {}
      f5 == IF zfs_flags \cap ZFS_SYNC # {} THEN FS_SYNC_FL ELSE {}
      f6 == IF zfs_flags \cap ZFS_NOATIME # {} /\ zfs_flags \cap ZFS_SYNC # {}
            THEN FS_NOATIME_FL ELSE {}
      ioctl_flags == f1 \cup f2 \cup f3 \cup f4 \cup f5 \cup f6
  IN ioctl_flags \cap FS_FL_USER_VISIBLE

zpl_get_ioctl_flags(zfs_flags) ==
  LET f1 == IF zfs_flags \cap ZFS_IMMUTABLE # {} THEN FS_IMMUTABLE_FL ELSE {}
      f2 == IF zfs_flags \cap ZFS_APPENDONLY # {} THEN FS_APPEND_FL ELSE {}
      f3 == IF zfs_flags \cap ZFS_NODUMP # {} THEN FS_NODUMP_FL ELSE {}
      f4 == IF zfs_flags \cap ZFS_DIRSYNC # {} THEN FS_DIRSYNC_FL ELSE {}
      f5 == IF zfs_flags \cap ZFS_SYNC # {} THEN FS_SYNC_FL ELSE {}
      f6 == IF zfs_flags \cap ZFS_NOATIME # {} THEN FS_NOATIME_FL ELSE {}
      ioctl_flags == f1 \cup f2 \cup f3 \cup f4 \cup f5 \cup f6
  IN ioctl_flags \cap FS_FL_USER_VISIBLE

\* zpl_ioctl_getflags when zfs_getflags returns rc and copy_to_user leaves
\* left bytes uncopied: [ret, out], out the word the user receives (or
\* "none").
zpl_ioctl_getflags(zfs_flags, rc, left) ==
  LET error == 0 - rc IN
  IF error # 0 THEN [ret |-> error, out |-> "none"]
  ELSE [ret |-> left,
        out |-> IF left = 0 THEN zpl_get_ioctl_flags(zfs_flags) ELSE "none"]

\* zpl_ioctl_setflags with its two checks in the other order.
zpl_ioctl_setflags_checks_swapped(flags, is_owner_or_cap) ==
  IF flags \ (FS_IMMUTABLE_FL \cup FS_APPEND_FL \cup FS_NODUMP_FL
                \cup FS_DIRSYNC_FL \cup FS_SYNC_FL \cup FS_NOATIME_FL) # {}
  THEN 0 - EOPNOTSUPP
  ELSE IF (flags \ FS_FL_USER_MODIFIABLE) # {} \/ ~is_owner_or_cap
  THEN 0 - EACCES
  ELSE 0

\* zpl_ioctl_setflags without its second check.
zpl_ioctl_setflags_checks_first(flags, is_owner_or_cap) ==
  IF (flags \ FS_FL_USER_MODIFIABLE) # {} \/ ~is_owner_or_cap
  THEN 0 - EACCES
  ELSE 0

\* The two checks of zpl_ioctl_setflags on the word flags: 0 when both pass.
zpl_ioctl_setflags_checks(flags, is_owner_or_cap) ==
  IF (flags \ FS_FL_USER_MODIFIABLE) # {} \/ ~is_owner_or_cap
  THEN 0 - EACCES
  ELSE IF flags \ (FS_IMMUTABLE_FL \cup FS_APPEND_FL \cup FS_NODUMP_FL
                     \cup FS_DIRSYNC_FL \cup FS_SYNC_FL \cup FS_NOATIME_FL)
            # {}
  THEN 0 - EOPNOTSUPP
  ELSE 0

\* zpl_ioctl_setflags when copy_from_user leaves left bytes uncopied and
\* zfs_setattr(), if called, returns rc: [ret, setattr], setattr telling
\* whether zfs_setattr was called.
zpl_ioctl_setflags(left, flags, is_owner_or_cap, rc) ==
  IF left # 0 THEN [ret |-> left, setattr |-> FALSE]
  ELSE IF zpl_ioctl_setflags_checks(flags, is_owner_or_cap) # 0
  THEN [ret |-> zpl_ioctl_setflags_checks(flags, is_owner_or_cap),
        setattr |-> FALSE]
  ELSE [ret |-> 0 - rc, setattr |-> TRUE]

\* Bytes that copy_to_user and copy_from_user may leave uncopied of the
\* sizeof(unsigned int) they are given.
CopyLeft == {0, 4}

\* The file's zfs flags are any; no ioctl was made.
InitFlags ==
  /\ z_pflags \in SUBSET ZfsBits
  /\ ctl = NoCall

\* zpl_ioctl(filp, ZFS_IOC_GETFLAGS, arg).  The record of the call tells which
\* of zpl_ioctl_getflags, zpl_ioctl_setflags and zfs_setattr were called.
zpl_ioctl_ZFS_IOC_GETFLAGS ==
  /\ ctl.op = "none"
  /\ \E rc \in EngineRcs, left \in CopyLeft :
       LET r == zpl_ioctl_getflags(z_pflags, rc, left) IN
       /\ rc # 0 => left = 0
       /\ ctl' = [op |-> "ioctl", cmd |-> "ZFS_IOC_GETFLAGS", rc |-> rc,
                  left |-> left, ret |-> r.ret, out |-> r.out,
                  getflags |-> TRUE, setflags |-> FALSE, setattr |-> FALSE]
  /\ UNCHANGED z_pflags
  /\ UNCHANGED <<syncvars, iovars>>

\* What zfs_setattr(), called with no argument, may leave in the file's
\* flags when it returns rc: it is given neither the inode nor the word
\* flags, so nothing ties the outcome to what the caller asked for.
zfs_setattr(zfs_flags, rc) ==
  IF rc = 0 THEN SUBSET ZfsBits ELSE {zfs_flags}

\* zpl_ioctl(filp, ZFS_IOC_SETFLAGS, arg), arg pointing at the word flags;
\* before is the file's flags at the call.
zpl_ioctl_ZFS_IOC_SETFLAGS ==
  /\ ctl.op = "none"
  /\ \E left \in CopyLeft, flags \in SUBSET FsBits, owner \in BOOLEAN,
        rc \in EngineRcs :
       LET r == zpl_ioctl_setflags(left, flags, owner, rc) IN
       /\ ~r.setattr => rc = 0
       /\ left # 0 => flags = {} /\ owner
       /\ ctl' = [op |-> "ioctl", cmd |-> "ZFS_IOC_SETFLAGS", left |-> left,
                  flags |-> flags, owner |-> owner, rc |-> rc, ret |-> r.ret,
                  before |-> z_pflags,
                  getflags |-> FALSE, setflags |-> TRUE,
                  setattr |-> r.setattr]
       /\ IF r.setattr THEN z_pflags' \in zfs_setattr(z_pflags, rc)
          ELSE z_pflags' = z_pflags
  /\ UNCHANGED <<syncvars, iovars>>

\* zpl_ioctl returning -EOPNOTSUPP for a cmd it does not know.
zpl_ioctl_other_EOPNOTSUPP ==
  /\ ctl.op = "none"
  /\ ctl' = [op |-> "ioctl", cmd |-> "other", ret |-> 0 - EOPNOTSUPP,
             getflags |-> FALSE, setflags |-> FALSE, setattr |-> FALSE]
  /\ UNCHANGED z_pflags
  /\ UNCHANGED <<syncvars, iovars>>

\* zpl_ioctl(filp, cmd, arg) with any other cmd: return (-ENOTTY).
zpl_ioctl_other ==
  /\ ctl.op = "none"
  /\ ctl' = [op |-> "ioctl", cmd |-> "other", ret |-> 0 - ENOTTY,
             getflags |-> FALSE, setflags |-> FALSE, setattr |-> FALSE]
  /\ UNCHANGED z_pflags
  /\ UNCHANGED <<syncvars, iovars>>

\* The ioctl returns to the caller.
zpl_ioctl_return ==
  /\ ctl.op = "ioctl"
  /\ ctl' = NoCall
  /\ UNCHANGED z_pflags
  /\ UNCHANGED <<syncvars, iovars>>

NextFlags ==
  \/ zpl_ioctl_ZFS_IOC_GETFLAGS
  \/ zpl_ioctl_ZFS_IOC_SETFLAGS
  \/ zpl_ioctl_other
  \/ zpl_ioctl_return

InitSpecFlags == InitFlags /\ IdleSync /\ IdleIO

SpecFlags == InitSpecFlags /\ [][NextFlags]_vars

(* ======================= the claims, C1 to C10 ====================== *)

\* The calls of zpl_readpage and zpl_putpage that thread t has returned from
\* and still holds the record of: its own call, or the last zpl_putpage that
\* write_cache_pages made for it.
PageCalls(t) ==
  IF pc[t] = "done" /\ fr[t].op = "readpage" THEN {fr[t]}
  ELSE IF fr[t].op \in {"writepage", "writepages"} /\ "put" \in DOMAIN fr[t]
          /\ fr[t].put.op = "putpage"
  THEN {fr[t].put}
  ELSE {}

\* C1: a call of zpl_readpage or of zpl_putpage, entered with the page locked
\* by the caller, has unlocked the page exactly once when it returns, whether
\* the engine call succeeded or failed: the page is no longer locked by the
\* call, and unlock_page ran once, not zero times and not twice.
C1_UnlockedExactlyOnce ==
  \A t \in Threads : \A c \in PageCalls(t) :
    c.nunlock = 1 /\ c.page.lock = 0

\* A zpl_readpage that failed and a zpl_putpage that succeeded have both
\* returned.
C1_Witness ==
  \E t, u \in Threads :
    /\ \E c \in PageCalls(t) : c.op = "readpage" /\ c.error # 0 /\ c.nunlock = 1
    /\ \E c \in PageCalls(u) : c.op = "putpage" /\ c.error = 0 /\ c.nunlock = 1

\* C2: when zpl_readpages returns, on any path (the engine failed for the
\* batch, kmalloc failed for the page vector, or all went well), no page of
\* the list it was given is still locked by the call.
C2_ReadpagesUnlocksAll ==
  \A t \in Threads :
    pc[t] = "done" /\ fr[t].op = "readpages" =>
      \A i \in DOMAIN fr[t].given : pages[fr[t].given[i]].lock # t

\* C3: when zpl_readpage or zpl_putpage returns, the flags of the page follow
\* from the engine's outcome alone: uptodate and not in error after a
\* success, in error and not uptodate after a failure, whatever they were
\* before; and the call returns the engine's error, which is not 0 exactly
\* when the page is left in error.
C3_FlagsFollowOutcome ==
  \A t \in Threads : \A c \in PageCalls(t) :
    /\ c.error = 0 => c.page.uptodate /\ ~c.page.error
    /\ c.error # 0 => c.page.error /\ ~c.page.uptodate
    /\ ~(c.page.uptodate /\ c.page.error)
    /\ c.ret = c.error
    /\ c.ret <= 0
    /\ (c.ret # 0) <=> c.page.error

\* A zpl_readpage that succeeded on a page an earlier call left in error, and
\* a zpl_putpage that failed on a page that was uptodate.
C3_Witness ==
  \E t, u \in Threads :
    /\ \E c \in PageCalls(t) :
         c.op = "readpage" /\ c.error = 0 /\ c.was.error /\ c.page.uptodate
    /\ \E c \in PageCalls(u) :
         c.op = "putpage" /\ c.error # 0 /\ c.was.uptodate /\ c.page.error

\* C4: at the step at which a zpl_write returns wrote >= 0 for the bytes
\* pos .. pos + wrote - 1, the engine's copy holds the written value at each
\* of these bytes, each page of the page cache that was there before the
\* call and holds one of them holds the written value too, and a read of the
\* byte at that moment gives the written value.
C4_WriteThrough ==
  [][\A t \in Threads :
       pc[t] = "idle" /\ pc'[t] = "done" /\ fr'[t].op = "write"
         /\ fr'[t].ret >= 0 =>
         \A off \in WriteRange(fr'[t].pos, fr'[t].ret) :
           /\ arc'[off] = fr'[t].val
           /\ pages[PageOf(off)].present =>
                pages'[PageOf(off)].present
                  /\ pages'[PageOf(off)].data = fr'[t].val
           /\ zfs_read_byte(arc', pages', z_is_mapped', off) = fr'[t].val]_vars

\* A write of a value has returned for bytes of which one is in a page of
\* the page cache that is uptodate and dirty (a store through the mapping
\* went before), and the other is in no page.
C4_Witness ==
  \E t \in Threads :
    /\ pc[t] = "done" /\ fr[t].op = "write" /\ fr[t].ret = 2 /\ fr[t].val = 1
    /\ z_is_mapped = 1
    /\ \E off \in WriteRange(fr[t].pos, fr[t].ret) :
         /\ pages[off].present /\ pages[off].uptodate /\ pages[off].dirty
         /\ pages[off].data = 1 /\ arc[off] = 1
    /\ \E off \in WriteRange(fr[t].pos, fr[t].ret) : ~pages[off].present

\* C5: a step adds a page to the page cache of the file only when it is the
\* entry of a populate call for that page (zpl_readpage for it, or
\* zpl_readpages with it in the list); no step of zpl_read, zpl_write,
\* zpl_mmap, zpl_putpage, zpl_writepage or zpl_writepages adds one, and a
\* flush is entered only for a page that is in the page cache.
C5_NoSpeculativePages ==
  [][/\ \A p \in Pages :
          ~pages[p].present /\ pages'[p].present =>
            \E t \in Threads :
              /\ pc[t] = "idle"
              /\ \/ pc'[t] = "readpage_mark" /\ fr'[t].op = "readpage"
                      /\ fr'[t].pp = p
                 \/ fr'[t].op = "readpages"
                      /\ \E i \in DOMAIN fr'[t].given : fr'[t].given[i] = p
     /\ \A t \in Threads :
          pc[t] # "putpage_mark" /\ pc'[t] = "putpage_mark" =>
            pages[fr'[t].pp].present]_vars

\* With the file mapped and one page in the page cache, a write has returned
\* for bytes of a page that is not in it, and the page is still not there.
C5_Witness ==
  \E t \in Threads :
    /\ pc[t] = "done" /\ fr[t].op = "write" /\ fr[t].ret > 0
    /\ z_is_mapped = 1 /\ vma
    /\ \E p \in Pages : pages[p].present
    /\ \E off \in WriteRange(fr[t].pos, fr[t].ret) : ~pages[PageOf(off)].present

\* C6: zpl_read_common and zpl_write_common return the engine's error,
\* negated and otherwise unchanged, when the engine fails, whatever it left
\* in uio_resid; and len - uio_resid, a count in 0..len, when it succeeds.
C6_TransferResult ==
  io.op \in {"read", "write"} =>
    /\ io.rc # 0 => io.ret = 0 - io.rc /\ io.ret < 0
    /\ io.rc = 0 => io.ret = io.len - io.resid /\ io.ret \in 0..io.len

\* A read failed after part of the buffer was filled, and the error came back.
C6_Witness ==
  /\ io.op = "read" /\ io.rc = 28 /\ io.len = 2 /\ io.resid = 1
  /\ io.ret = 0 - 28

\* C7: zpl_read and zpl_write leave the file offset as it was when the
\* transfer fails and advance it by the returned count when it succeeds; the
\* offset is the initial offset plus the counts the successful calls
\* returned.
C7_OffsetAdvance ==
  /\ io.op \in {"read", "write"} =>
       /\ io.ret < 0 => f_pos = io.pos
       /\ io.ret >= 0 => f_pos = io.pos + io.ret
  /\ f_pos = io.start + io.sum

\* A read of MaxLen bytes with one byte left before the end of the file
\* returned 1 and advanced the offset by 1, after other calls had moved it.
C7_Witness ==
  /\ io.op = "read" /\ io.len = MaxLen /\ io.size - io.pos = 1
  /\ io.ret = 1 /\ f_pos = io.pos + 1
  /\ io.sum > 1 /\ io.pos # io.start

\* C8: zpl_ioctl_setflags returns -EACCES, and never -EOPNOTSUPP, to a
\* caller that is neither the owner nor capable, for every flag word, those
\* with a bit outside the six flags included.
C8_PermissionFirst ==
  ctl.op = "ioctl" /\ ctl.cmd = "ZFS_IOC_SETFLAGS" /\ ctl.left = 0
    /\ ~ctl.owner =>
    ctl.ret = 0 - EACCES /\ ctl.ret # 0 - EOPNOTSUPP /\ ~ctl.setattr

\* Such a caller asked for a flag that may be modified but is not one of the
\* six, alone.
C8_Witness ==
  /\ ctl.op = "ioctl" /\ ctl.cmd = "ZFS_IOC_SETFLAGS" /\ ctl.left = 0
  /\ ~ctl.owner /\ ctl.flags = {"FS_COMPR_FL"} /\ ctl.ret = 0 - EACCES

\* The six flags of Linux that zpl_ioctl_setflags accepts.
FsRecognized ==
  FS_IMMUTABLE_FL \cup FS_APPEND_FL \cup FS_NODUMP_FL \cup FS_DIRSYNC_FL
    \cup FS_SYNC_FL \cup FS_NOATIME_FL

\* C9, as claimed: zpl_ioctl_setflags returns -EOPNOTSUPP to the owner for
\* every flag word with a bit outside the six flags.
C9_OwnerUnsupported ==
  ctl.op = "ioctl" /\ ctl.cmd = "ZFS_IOC_SETFLAGS" /\ ctl.left = 0
    /\ ctl.owner /\ ctl.flags \ FsRecognized # {} =>
    ctl.ret = 0 - EOPNOTSUPP

\* C9, amended: zpl_ioctl_setflags returns -EOPNOTSUPP to the owner for every
\* flag word with a bit outside the six flags and no bit outside
\* FS_FL_USER_MODIFIABLE; for a word with a bit outside FS_FL_USER_MODIFIABLE
\* the owner gets -EACCES.
C9_OwnerUnsupportedModifiable ==
  ctl.op = "ioctl" /\ ctl.cmd = "ZFS_IOC_SETFLAGS" /\ ctl.left = 0
    /\ ctl.owner /\ ctl.flags \ FsRecognized # {} =>
    /\ ctl.flags \ FS_FL_USER_MODIFIABLE = {} => ctl.ret = 0 - EOPNOTSUPP
    /\ ctl.flags \ FS_FL_USER_MODIFIABLE # {} => ctl.ret = 0 - EACCES
    /\ ~ctl.setattr

\* The owner asked for FS_IMMUTABLE_FL and a flag that may be modified but is
\* not one of the six.
C9_Witness ==
  /\ ctl.op = "ioctl" /\ ctl.cmd = "ZFS_IOC_SETFLAGS" /\ ctl.left = 0
  /\ ctl.owner /\ ctl.flags = FS_IMMUTABLE_FL \cup {"FS_COMPR_FL"}
  /\ ctl.ret = 0 - EOPNOTSUPP

\* The zfs flags whose Linux flag, as zpl_get_ioctl_flags gives it, is in the
\* word w.
ZfsFlagsOf(w) ==
  UNION {{z} : z \in {y \in ZfsBits : /\ zpl_get_ioctl_flags({y}) # {}
                                       /\ zpl_get_ioctl_flags({y}) \subseteq w}}

\* C10: for a file whose zfs flags are any of the six, the word that
\* ZFS_IOC_GETFLAGS gives passes both checks of zpl_ioctl_setflags for the
\* owner, and the zfs flags that correspond to the bits of the word are the
\* file's flags: FS_FL_USER_VISIBLE drops none of the six.
C10_FlagRoundTrip ==
  ctl.op = "ioctl" /\ ctl.cmd = "ZFS_IOC_GETFLAGS" /\ ctl.ret = 0
    /\ z_pflags \subseteq ZfsRecognized =>
    /\ ctl.out \ FS_FL_USER_MODIFIABLE = {}
    /\ ctl.out \ FsRecognized = {}
    /\ zpl_ioctl_setflags_checks(ctl.out, TRUE) = 0
    /\ ZfsFlagsOf(ctl.out) = z_pflags
    /\ Cardinality(ctl.out) = Cardinality(z_pflags)

\* ZFS_IOC_GETFLAGS gave the word of a file with all six flags set.
C10_Witness ==
  /\ ctl.op = "ioctl" /\ ctl.cmd = "ZFS_IOC_GETFLAGS" /\ ctl.ret = 0
  /\ z_pflags = ZfsRecognized /\ ctl.out = FsRecognized

(* ======================= the claims, C11 to C20 ===================== *)

\* C11: the word that zpl_get_ioctl_flags gives for any zfs flag word has
\* each of the six Linux bits set exactly when its own zfs bit is set,
\* whatever the other bits are; a zfs bit that is none of the six changes
\* nothing; and the word has no bit outside FS_FL_USER_VISIBLE.
C11_ToExternalPerBit ==
  ctl.op = "ioctl" /\ ctl.cmd = "ZFS_IOC_GETFLAGS" /\ ctl.ret = 0 =>
    /\ ("FS_IMMUTABLE_FL" \in ctl.out) <=> ("ZFS_IMMUTABLE" \in z_pflags)
    /\ ("FS_APPEND_FL" \in ctl.out) <=> ("ZFS_APPENDONLY" \in z_pflags)
    /\ ("FS_NODUMP_FL" \in ctl.out) <=> ("ZFS_NODUMP" \in z_pflags)
    /\ ("FS_DIRSYNC_FL" \in ctl.out) <=> ("ZFS_DIRSYNC" \in z_pflags)
    /\ ("FS_SYNC_FL" \in ctl.out) <=> ("ZFS_SYNC" \in z_pflags)
    /\ ("FS_NOATIME_FL" \in ctl.out) <=> ("ZFS_NOATIME" \in z_pflags)
    /\ ctl.out = zpl_get_ioctl_flags(z_pflags \ {"ZFS_READONLY"})
    /\ ctl.out \subseteq FsRecognized
    /\ ctl.out \subseteq FS_FL_USER_VISIBLE

\* ZFS_IOC_GETFLAGS gave the word of a file with ZFS_NOATIME, ZFS_NODUMP and
\* a flag that Linux has no equivalent of, and without ZFS_SYNC.
C11_Witness ==
  /\ ctl.op = "ioctl" /\ ctl.cmd = "ZFS_IOC_GETFLAGS" /\ ctl.ret = 0
  /\ z_pflags = ZFS_NOATIME \cup ZFS_NODUMP \cup {"ZFS_READONLY"}
  /\ ctl.out = FS_NOATIME_FL \cup FS_NODUMP_FL

\* The steps of a zpl_mmap that ran to its end.
MmapSteps ==
  <<"zfs_map", "generic_file_mmap", "mutex_enter", "z_is_mapped = 1",
    "mutex_exit">>

\* C12: a zpl_mmap whose zfs_map fails returns zfs_map's error, negated,
\* having called nothing else: no generic_file_mmap, no assignment to
\* z_is_mapped, and no step of the call changes z_is_mapped; a zpl_mmap that
\* returns 0 has called zfs_map, then generic_file_mmap, then set
\* z_is_mapped between mutex_enter and mutex_exit, and at each moment a call
\* has made a prefix of these steps.
C12_MmapOrder ==
  [][\A t \in Threads :
       /\ fr'[t].op = "mmap" =>
            /\ \E n \in 1..Len(MmapSteps) :
                 fr'[t].steps = SubSeq(MmapSteps, 1, n)
            /\ pc'[t] = "done" /\ fr'[t].ret = 0 => fr'[t].steps = MmapSteps
            /\ pc'[t] = "done" /\ fr'[t].steps = <<"zfs_map">> =>
                 fr'[t].ret = fr'[t].error /\ fr'[t].ret < 0
            /\ fr'[t].steps = <<"zfs_map">> /\ fr'[t].error # 0 =>
                 pc'[t] = "done"
       /\ pc[t] = "idle" /\ fr'[t].op = "mmap" /\ fr'[t].error # 0 =>
            z_is_mapped' = z_is_mapped
       /\ pc[t] = "done" /\ fr[t].op = "mmap"
            /\ fr[t].steps = <<"zfs_map">> /\ pc'[t] # pc[t] =>
            z_is_mapped' = z_is_mapped /\ vma' = vma]_vars

\* One zpl_mmap has returned the error of zfs_map with the file not mapped,
\* and another has returned 0.
C12_Witness ==
  \E t, u \in Threads :
    /\ pc[t] = "done" /\ fr[t].op = "mmap" /\ fr[t].ret = 0 - 5
    /\ fr[t].steps = <<"zfs_map">>
    /\ pc[u] = "done" /\ fr[u].op = "mmap" /\ fr[u].ret = 0
    /\ fr[u].steps = MmapSteps /\ z_is_mapped = 1

\* C13: z_is_mapped never goes back from 1 to 0, whatever the threads do; it
\* is assigned only by the z_is_mapped = 1 of zpl_mmap, and the thread that
\* assigns it holds z_lock at that step; a thread holds z_lock only between
\* its mutex_enter and its mutex_exit, so not when its zpl_mmap has returned.
C13_MappedMonotonic ==
  [][/\ z_is_mapped = 1 => z_is_mapped' = 1
     /\ z_is_mapped' \in {0, 1}
     /\ z_is_mapped' # z_is_mapped =>
          \E t \in Threads : pc[t] = "mmap_set" /\ pc'[t] = "mmap_exit"
     /\ \A t \in Threads :
          /\ pc[t] = "mmap_set" /\ pc'[t] # pc[t] =>
               z_lock = t /\ z_lock' = t /\ z_is_mapped' = 1
          /\ z_lock' = t <=> pc'[t] \in {"mmap_set", "mmap_exit"}
          /\ pc'[t] \in {"done", "idle"} => z_lock' # t]_vars

\* With the file mapped already, one thread is in a second zpl_mmap, between
\* its assignment and its mutex_exit, and the other waits in mutex_enter.
C13_Witness ==
  \E t, u \in Threads :
    /\ pc[t] = "mmap_exit" /\ z_lock = t /\ z_is_mapped = 1 /\ vma
    /\ pc[u] = "mmap_enter"

\* C14: a zpl_readpages whose zfs_getpage fails returns zfs_getpage's error,
\* negated, with every page of the list as it was on entry: locked by the
\* caller, its uptodate and error flags as they were, and still in the list,
\* of which no page was removed, unlocked or released.
C14_ReadpagesFailureFrame ==
  \A t \in Threads :
    pc[t] = "done" /\ fr[t].op = "readpages" /\ "error" \in DOMAIN fr[t]
      /\ fr[t].error # 0 =>
      /\ fr[t].ret = fr[t].error /\ fr[t].ret < 0
      /\ fr[t].pages = fr[t].given
      /\ fr[t].unlocked = <<>>
      /\ \A p \in DOMAIN fr[t].was :
           /\ pages[p].present /\ pages[p].lock = t
           /\ pages[p].uptodate = fr[t].was[p].uptodate
           /\ pages[p].error = fr[t].was[p].error

\* A zpl_readpages of two pages, one of them left in error by an earlier
\* call, has returned the error of zfs_getpage.
C14_Witness ==
  \E t \in Threads :
    /\ pc[t] = "done" /\ fr[t].op = "readpages" /\ fr[t].ret = 0 - 5
    /\ Len(fr[t].given) = 2 /\ Len(fr[t].getpage) = 1
    /\ \E p, q \in DOMAIN fr[t].was :
         fr[t].was[p].error /\ ~fr[t].was[q].error /\ pages[p].lock = t

\* C15: a zpl_readpages whose zfs_getpage succeeds leaves each page of the
\* list, at the moment it lets go of it, as a zpl_readpage that succeeds
\* leaves its page: not in error, uptodate and unlocked, with one unlock_page
\* for each page; and this whatever the flags of the pages were on entry.
C15_ReadpagesAsReadpage ==
  \A t \in Threads :
    pc[t] = "done" /\ fr[t].op = "readpages" /\ "error" \in DOMAIN fr[t]
      /\ fr[t].error = 0 =>
      /\ \A p \in DOMAIN fr[t].was :
           Cardinality({i \in DOMAIN fr[t].unlocked : fr[t].unlocked[i] = p})
             = 1
      /\ \A i \in DOMAIN fr[t].unlocked :
           LET p == fr[t].unlocked[i]
               single == unlock_page(zpl_readpage_flags(fr[t].was[p], 0))
           IN /\ fr[t].after[i].lock = 0
              /\ fr[t].after[i].uptodate
              /\ ~fr[t].after[i].error
              /\ fr[t].after[i].uptodate = single.uptodate
              /\ fr[t].after[i].error = single.error
              /\ fr[t].after[i].lock = single.lock

C17_SetflagsApplies ==
  ctl.op = "ioctl" /\ ctl.cmd = "ZFS_IOC_SETFLAGS" /\ ctl.left = 0 =>
    /\ ctl.setattr <=>
         /\ ctl.flags \ FS_FL_USER_MODIFIABLE = {}
         /\ ctl.owner
         /\ ctl.flags \ FsRecognized = {}
    /\ ctl.setattr => ctl.ret = 0 - ctl.rc
    /\ ~ctl.setattr => ctl.ret < 0 /\ z_pflags = ctl.before
    /\ ctl.setattr /\ ctl.ret = 0 =>
         z_pflags \cap ZfsRecognized = ZfsFlagsOf(ctl.flags)

\* C18: a step changes the uptodate or the error flag of a page only when it
\* is the marking step of a zpl_readpage, zpl_readpages or zpl_putpage whose
\* thread holds the page's lock before and after the step, its unlock_page
\* still to come; the step that unlocks a page and the step that locks it
\* change neither flag, and no flag changes while the page is unlocked: the
\* thread that locks the page next finds the flags as the call left them.
C18_FlagsUnderLock ==
  [][\A p \in Pages :
       /\ (pages'[p].uptodate # pages[p].uptodate
             \/ pages'[p].error # pages[p].error) =>
            \E t \in Threads :
              /\ pages[p].lock = t /\ pages'[p].lock = t
              /\ \/ pc[t] = "readpage_mark" /\ pc'[t] = "readpage_unlock"
                      /\ fr[t].pp = p
                 \/ pc[t] = "putpage_mark" /\ pc'[t] = "putpage_unlock"
                      /\ fr[t].pp = p
                 \/ pc[t] = "readpages_mark" /\ pc'[t] = "readpages_unlock"
                      /\ fr'[t].p = p
       /\ pages'[p].lock # pages[p].lock =>
            /\ pages'[p].uptodate = pages[p].uptodate
            /\ pages'[p].error = pages[p].error
            /\ pages[p].lock = 0 \/ pages'[p].lock = 0
       /\ pages[p].lock # 0 /\ pages'[p].lock = 0 =>
            pc[pages[p].lock] \in {"readpage_unlock", "putpage_unlock",
                                   "readpages_unlock"}]_vars

\* One thread has marked a page of its zpl_readpages uptodate and another has
\* marked the page of its zpl_putpage in error, each still holding the lock
\* of its page.
C18_Witness ==
  \E t, u \in Threads :
    /\ pc[t] = "readpages_unlock" /\ pages[fr[t].p].lock = t
    /\ pages[fr[t].p].uptodate
    /\ pc[u] = "putpage_unlock" /\ pages[fr[u].pp].lock = u
    /\ pages[fr[u].pp].error /\ ~pages[fr[u].pp].uptodate

\* C19: the vector that pages_vector_from_list makes of the list that
\* zpl_readpages is given holds the pages of the list from its tail to its
\* head, each page of the list in one slot, and none of the slots written is
\* past the nr_pages that were allocated; zfs_getpage is called once, with
\* that vector and nr_pages; and when zpl_readpages returns 0 no page is
\* left in the list.
C19_PageVector ==
  \A t \in Threads :
    fr[t].op = "readpages" /\ "pl" \in DOMAIN fr[t] =>
      LET list == fr[t].given
          pl == fr[t].pl
      IN /\ Len(pl) = Len(list)
         /\ \A i \in DOMAIN pl : pl[i] = list[Len(list) + 1 - i]
         /\ \A i \in DOMAIN list :
              Cardinality({j \in DOMAIN pl : pl[j] = list[i]}) = 1
         /\ DOMAIN pl \subseteq 1..fr[t].nr_pages
         /\ Len(fr[t].getpage) <= 1
         /\ pc[t] # "readpages_getpage" =>
              fr[t].getpage = <<[pl |-> pl, nr_pages |-> fr[t].nr_pages]>>
         /\ pc[t] = "done" /\ fr[t].ret = 0 =>
              fr[t].pages = <<>> /\ Len(fr[t].unlocked) = Len(list)

\* A zpl_readpages of a list of two pages has returned 0.
C19_Witness ==
  \E t \in Threads :
    /\ pc[t] = "done" /\ fr[t].op = "readpages" /\ fr[t].ret = 0
    /\ fr[t].given = <<1, 0>> /\ fr[t].pl = <<0, 1>> /\ fr[t].nr_pages = 2
    /\ fr[t].pages = <<>>

\* C20: z_is_mapped goes from 0 to 1 only in a step of a zpl_mmap whose
\* zfs_map and generic_file_mmap both returned 0; a zpl_mmap that returns an
\* error, from either of them, has made no assignment to z_is_mapped; and a
\* zpl_mmap that returns 0 has made its assignment before it returns, so
\* that z_is_mapped is 1 when it does.
C20_MappedOnlyAfterBothSteps ==
  [][/\ z_is_mapped # 1 /\ z_is_mapped' = 1 =>
          \E t \in Threads :
            /\ fr[t].op = "mmap" /\ fr[t].error = 0
            /\ fr[t].steps = <<"zfs_map", "generic_file_mmap", "mutex_enter">>
            /\ fr'[t].steps = Append(fr[t].steps, "z_is_mapped = 1")
     /\ \A t \in Threads :
          pc'[t] = "done" /\ fr'[t].op = "mmap" =>
            /\ fr'[t].ret # 0 =>
                 /\ \A i \in DOMAIN fr'[t].steps :
                      fr'[t].steps[i] # "z_is_mapped = 1"
                 /\ fr'[t].steps \in {<<"zfs_map">>,
                                      <<"zfs_map", "generic_file_mmap">>}
            /\ fr'[t].ret = 0 =>
                 /\ \E i \in DOMAIN fr'[t].steps :
                      fr'[t].steps[i] = "z_is_mapped = 1"
                 /\ z_is_mapped' = 1]_vars

\* A zpl_mmap has returned the error of generic_file_mmap and the file is
\* not mapped, while a second zpl_mmap has passed zfs_map.
C20_Witness ==
  \E t, u \in Threads :
    /\ pc[t] = "done" /\ fr[t].op = "mmap" /\ fr[t].ret = 0 - 8
    /\ fr[t].steps = <<"zfs_map", "generic_file_mmap">>
    /\ z_is_mapped = 0
    /\ pc[u] = "mmap_generic"

====
